---- MODULE Spec2Model ----
(***************************************************************************)
(* HelperTutor (src/bot.py): the in-memory tables, the settings, the       *)
(* APScheduler job store, the handlers that mutate them and the two        *)
(* background sweeps.                                                      *)
(*                                                                         *)
(* Time is an integer number of hours (UTC instants); the code compares    *)
(* ISO-8601 UTC strings / aware datetimes, whose order is the order of     *)
(* the instants.  A message send takes less than one clock unit, so the    *)
(* clock does not advance while check_late_homeworks is suspended in a     *)
(* send.  Telegram updates are handled one at a time, so a handler's       *)
(* state changes are one step; scheduler jobs run on the same event loop   *)
(* and interleave with handlers at the sweep's awaits.                     *)
(***************************************************************************)
EXTENDS Integers, Sequences, FiniteSets, TLC

VARIABLES
    now,            \* datetime.now(utc), in hours
    users_db,       \* telegram id -> user record
    homeworks_db,   \* list of homework records
    lessons_db,     \* list of lesson records
    next_id,        \* id counter shared by homeworks and lessons
    settings,       \* the settings dictionary
    jobs,           \* the scheduler's job store
    sweep,          \* the running check_late_homeworks coroutine, if any
    sched_errors,   \* errors logged by the last schedule_reminders call
    reply,          \* what the last handler answered / sent
    recomputed,     \* the last step ended with schedule_reminders
    user_data,      \* the tutor's context.user_data (the flow's draft)
    conv,           \* the tutor's state in conv_hw_handler and conv_lesson_handler
    lives_call,     \* the update_lives call of the last step, if it made one
    delivered       \* the reminders send_reminder has run for: runs and failed sends

vars == <<now, users_db, homeworks_db, lessons_db, next_id, settings, jobs,
          sweep, sched_errors, reply, recomputed, user_data, conv, lives_call,
          delivered>>

---------------------------------------------------------------------------
\* Bounds of the model
MaxTime == 2            \* users act at any hour up to here ...
LastTime == 8           \* ... and later only at the hours at which jobs run
ResetTime == 26         \* the same, where the 24-hour reset job is followed
MaxId == 2              \* homeworks + lessons created since the last clear
MaxCompletions == 2     \* complete_homework calls counted per homework

\* Program constants (TUTOR_ID comes from the environment: any id that is
\* not a student's)
TUTOR_ID == 100
LateSweepHours == 6
ResetSweepHours == 24
HoursPerDay == 24

Students == {1, 2}
UserIds == Students \cup {TUTOR_ID}
Zones == {"Europe/Moscow", "Asia/Omsk"}
TIMEZONE == "Europe/Moscow"
OfferedTimes == {2, 12, 24}

None == <<>>
Some(x) == <<x>>

Min(a, b) == IF a < b THEN a ELSE b
Max(a, b) == IF a > b THEN a ELSE b

RECURSIVE SeqToSet(_)
SeqToSet(s) == IF s = <<>> THEN {} ELSE {Head(s)} \cup SeqToSet(Tail(s))

\* list.remove(x): drops the first occurrence
RECURSIVE RemoveFirst(_, _)
RemoveFirst(s, x) ==
    IF s = <<>> THEN <<>>
    ELSE IF Head(s) = x THEN Tail(s)
    ELSE <<Head(s)>> \o RemoveFirst(Tail(s), x)

\* list.sort() on a list of integers
RECURSIVE InsertSorted(_, _)
InsertSorted(s, x) ==
    IF s = <<>> THEN <<x>>
    ELSE IF x <= Head(s) THEN <<x>> \o s
    ELSE <<Head(s)>> \o InsertSorted(Tail(s), x)

RECURSIVE sort_list(_)
sort_list(s) == IF s = <<>> THEN <<>> ELSE InsertSorted(sort_list(Tail(s)), Head(s))

---------------------------------------------------------------------------
\* Time zones: pytz offsets of the zones offered by tutor_settings_time
UtcOffset(tz) == IF tz = "Asia/Omsk" THEN 6 ELSE 3

\* parse_datetime: a local wall-clock text to a UTC instant, None if the
\* text does not parse.  A text is <<>> (garbage) or <<local hour>>.
parse_datetime(text, tz) ==
    IF text = <<>> THEN None ELSE Some(text[1] - UtcOffset(tz))

\* get_local_time: a UTC instant rendered in a zone
get_local_time(t, tz) == t + UtcOffset(tz)

---------------------------------------------------------------------------
\* Users
get_user(users, id) == IF id \in DOMAIN users THEN Some(users[id]) ELSE None

HasUser(users, id) == id \in DOMAIN users

\* a check that takes every sender for the tutor
is_tutor_Anyone(users, id) == TRUE

is_tutor(users, id) ==
    IF id \in DOMAIN users THEN users[id].role = "tutor" ELSE id = TUTOR_ID

get_students(users) == {u \in DOMAIN users : users[u].role = "student"}

NewUser(role, st, t) ==
    [role |-> role,
     lives |-> st.lives.max_lives,
     last_life_reset |-> [t |-> t, aware |-> FALSE],
     timezone |-> st.timezone]

\* a registration that writes a fresh record over the one that is there
register_user_Overwrites(users, id, role, st, t) ==
    [x \in DOMAIN users \cup {id} |->
        IF x = id THEN NewUser(role, st, t) ELSE users[x]]

register_user(users, id, role, st, t) ==
    IF id \notin DOMAIN users
    THEN [x \in DOMAIN users \cup {id} |->
              IF x = id THEN NewUser(role, st, t) ELSE users[x]]
    ELSE users

\* register_user: the value returned (True when the record was created)
register_user_result(users, id) == id \notin DOMAIN users

---------------------------------------------------------------------------
\* Lives
\* a clamp that forgets the floor
ClampLives_NoFloor(v, max_lives) == Min(v, max_lives)

ClampLives(v, max_lives) == Max(0, Min(v, max_lives))

\* update_lives: the new users table
update_lives(users, st, student_id, delta) ==
    IF HasUser(users, student_id) /\ st.lives.enabled
    THEN [users EXCEPT ![student_id].lives =
              ClampLives(users[student_id].lives + delta, st.lives.max_lives)]
    ELSE users

\* update_lives: the value returned (None when nothing was done)
update_lives_result(users, st, student_id, delta) ==
    IF HasUser(users, student_id) /\ st.lives.enabled
    THEN Some(ClampLives(users[student_id].lives + delta, st.lives.max_lives))
    ELSE None

\* no update_lives call in this step
NoCall == [called |-> FALSE, value |-> None, notified |-> FALSE]

\* an update_lives call: what it returned and whether it sent the student
\* the lives message
LivesCall(users, st, student_id, delta) ==
    [called |-> TRUE,
     value |-> update_lives_result(users, st, student_id, delta),
     notified |-> /\ HasUser(users, student_id)
                  /\ st.lives.enabled
                  /\ delta # 0
                  /\ st.lives.show_to_student]

---------------------------------------------------------------------------
\* Queries over the tables
IsActive(h, t) == h.deadline > t /\ ~h.is_completed

IsLate(h, t) == h.deadline < t /\ ~h.is_completed /\ ~h.late_notified

IsUpcoming(l, t) == l.lesson_time > t

get_active_homeworks(hws, t) == SelectSeq(hws, LAMBDA h : IsActive(h, t))

get_late_homeworks(hws, t) == SelectSeq(hws, LAMBDA h : IsLate(h, t))

get_upcoming_lessons(ls, t) == SelectSeq(ls, LAMBDA l : IsUpcoming(l, t))

---------------------------------------------------------------------------
\* The job store
SweepKinds == {"check_late_homeworks", "reset_lives_check"}

\* the id= argument of add_job
JobId(j) == IF j.kind \in SweepKinds THEN <<j.kind, 0, 0>>
            ELSE <<j.kind, j.hours, j.ent>>

\* str(n): the decimal digits of a natural number
RECURSIVE Digits(_)
Digits(n) == IF n < 10 THEN <<n>> ELSE Digits(n \div 10) \o <<n % 10>>

\* an id text that leaves the offset out
FormatJobId_NoOffset(kind, hours, ent) == <<kind, "_">> \o Digits(ent)

\* f"hw_{hours_before}h_{hw['id']}" and f"lesson_{hours_before}h_{lesson['id']}":
\* the id text as a sequence of its parts
FormatJobId(kind, hours, ent) ==
    <<kind, "_">> \o Digits(hours) \o <<"h", "_">> \o Digits(ent)

\* the id text of a job in the store
StoreId(j) == IF j.kind \in SweepKinds THEN <<j.kind>>
              ELSE FormatJobId(j.kind, j.hours, j.ent)

ReminderJob(kind, hours, ent, when, chat) ==
    [kind |-> kind, hours |-> hours, ent |-> ent,
     run_date |-> when - hours, chat_id |-> chat]

IntervalJob(kind, hours, t) ==
    [kind |-> kind, hours |-> hours, ent |-> 0,
     run_date |-> t + hours, chat_id |-> 0]

HasJobId(js, j) == \E k \in js : JobId(k) = JobId(j)

\* a recompute that registers on top of the jobs already in the store
remove_all_jobs_Keep(js) == js

remove_all_jobs(js) == {}

\* a recompute that registers every configured offset, past ones included
ReminderDue_Always(reminder_time, t) == TRUE

\* a reminder time equal to now still registered
ReminderDue_AtNow(reminder_time, t) == reminder_time >= t

ReminderDue(reminder_time, t) == reminder_time > t

\* the loop over the configured hours for one homework or lesson; a
\* ConflictingIdError from add_job leaves the loop (err = 1)
RECURSIVE AddReminders(_, _, _, _, _, _, _)
AddReminders(js, kind, ent, when, chat, times, t) ==
    IF times = <<>> THEN [jobs |-> js, err |-> 0]
    ELSE LET j == ReminderJob(kind, Head(times), ent, when, chat) IN
         IF ReminderDue(j.run_date, t)
         THEN IF HasJobId(js, j)
              THEN [jobs |-> js, err |-> 1]
              ELSE AddReminders(js \cup {j}, kind, ent, when, chat, Tail(times), t)
         ELSE AddReminders(js, kind, ent, when, chat, Tail(times), t)

RECURSIVE ScheduleHomeworks(_, _, _, _, _)
ScheduleHomeworks(acc, hws, users, st, t) ==
    IF hws = <<>> THEN acc
    ELSE LET hw == Head(hws) IN
         IF ~HasUser(users, hw.student_id)
         THEN ScheduleHomeworks(acc, Tail(hws), users, st, t)
         ELSE LET r == AddReminders(acc.jobs, "hw", hw.id, hw.deadline,
                                    hw.student_id,
                                    st.notifications.homework_times, t)
              IN ScheduleHomeworks([jobs |-> r.jobs, err |-> acc.err + r.err],
                                   Tail(hws), users, st, t)

RECURSIVE ScheduleLessons(_, _, _, _, _)
ScheduleLessons(acc, ls, users, st, t) ==
    IF ls = <<>> THEN acc
    ELSE LET l == Head(ls) IN
         IF ~HasUser(users, l.student_id) \/ ~l.notify_student
         THEN ScheduleLessons(acc, Tail(ls), users, st, t)
         ELSE LET r == AddReminders(acc.jobs, "lesson", l.id, l.lesson_time,
                                    l.student_id,
                                    st.notifications.lesson_times, t)
              IN ScheduleLessons([jobs |-> r.jobs, err |-> acc.err + r.err],
                                 Tail(ls), users, st, t)

\* schedule_reminders: the new job store and the number of errors logged
schedule_reminders(js, hws, ls, users, st, t) ==
    LET fixed == remove_all_jobs(js)
                 \cup {IntervalJob("check_late_homeworks", LateSweepHours, t),
                       IntervalJob("reset_lives_check", ResetSweepHours, t)}
        a0 == [jobs |-> fixed, err |-> 0]
        a1 == IF st.notifications.homework_reminders
              THEN ScheduleHomeworks(a0, get_active_homeworks(hws, t), users, st, t)
              ELSE a0
        a2 == IF st.notifications.lesson_reminders
              THEN ScheduleLessons(a1, get_upcoming_lessons(ls, t), users, st, t)
              ELSE a1
    IN a2

---------------------------------------------------------------------------
InitSettings ==
    [timezone |-> TIMEZONE,
     notifications |->
        [homework_reminders |-> TRUE,
         lesson_reminders |-> TRUE,
         late_homework_alerts |-> TRUE,
         homework_times |-> <<24, 12, 2>>,
         lesson_times |-> <<24, 2>>],
     lives |->
        [enabled |-> TRUE,
         max_lives |-> 5,
         penalty_late |-> 1,
         penalty_lesson |-> 2,
         reward_early |-> 1,
         auto_reset_days |-> 7,
         show_to_student |-> TRUE]]

\* no check_late_homeworks running.  While one runs: where it is suspended,
\* the part of late_hws still to do and (history) the ids late_hws began with
IdleSweep == [pc |-> "idle", queue |-> <<>>, started |-> {}]

\* context.user_data after clear(): no key is set
NoDraft ==
    [selected_student |-> None, hw_text |-> None, lesson_topic |-> None,
     lesson_date |-> None, lesson_hour |-> None]

\* no conversation open.  hw / lesson: the state the handler is in, by the
\* input it waits for (the states that only show the student keyboard are
\* left out: the select callbacks are entry points too).  hw_chosen and
\* hw_entered are history: the student picked and the text typed in conv_hw
\* since it was last entered, while it is open.
NoConv == [hw |-> "none", lesson |-> "none", hw_chosen |-> None, hw_entered |-> None]

\* main_async: empty tables, scheduler started, schedule_reminders called
Init ==
    /\ now = 0
    /\ users_db = <<>>
    /\ homeworks_db = <<>>
    /\ lessons_db = <<>>
    /\ next_id = 1
    /\ settings = InitSettings
    /\ jobs = schedule_reminders({}, <<>>, <<>>, <<>>, InitSettings, 0).jobs
    /\ sweep = IdleSweep
    /\ sched_errors = 0
    /\ reply = "none"
    /\ recomputed = TRUE
    /\ user_data = NoDraft
    /\ conv = NoConv
    /\ lives_call = NoCall
    /\ delivered = <<>>

---------------------------------------------------------------------------
\* Records
NewHomework(id, student_id, tutor_id, task_text, deadline) ==
    [id |-> id, student_id |-> student_id, tutor_id |-> tutor_id,
     task_text |-> task_text, deadline |-> deadline, is_completed |-> FALSE, completed_at |-> None,
     late_notified |-> FALSE,
     \* history of the record, not fields of the dictionary:
     alerts |-> 0,        \* late alerts delivered to the tutor
     penalties |-> 0,     \* late penalties applied
     completions |-> 0,   \* complete_homework calls that marked it
     rewards |-> 0]       \* early rewards credited

NewLesson(id, student_id, tutor_id, topic, lesson_time) ==
    [id |-> id, student_id |-> student_id, tutor_id |-> tutor_id,
     topic |-> topic, lesson_time |-> lesson_time, notify_student |-> TRUE]

\* the student's zone, or the process-wide one when there is no student
StudentTz(users, st, student_id) ==
    IF HasUser(users, student_id) THEN users[student_id].timezone ELSE st.timezone

\* the job store and error count after a handler that may fail (a send that
\* raises) before it reaches schedule_reminders
Recompute(reached, hws, ls, users, st) ==
    IF reached
    THEN LET r == schedule_reminders(jobs, hws, ls, users, st, now)
         IN /\ jobs' = r.jobs
            /\ sched_errors' = r.err
            /\ recomputed' = TRUE
    ELSE /\ UNCHANGED <<jobs, sched_errors>>
         /\ recomputed' = FALSE

NoRecompute == /\ UNCHANGED <<jobs, sched_errors>>
               /\ recomputed' = FALSE

---------------------------------------------------------------------------
\* /start
Start(u) ==
    /\ users_db' = register_user(users_db, u,
                                 IF is_tutor(users_db, u) THEN "tutor" ELSE "student",
                                 settings, now)
    /\ IF u = TUTOR_ID THEN user_data' = NoDraft ELSE UNCHANGED user_data
    /\ UNCHANGED conv
    /\ reply' = "welcome"
    /\ lives_call' = NoCall
    /\ NoRecompute
    /\ UNCHANGED <<now, homeworks_db, lessons_db, next_id, settings, sweep,
                   delivered>>

\* /menu sent by the tutor
Menu ==
    /\ user_data' = NoDraft
    /\ reply' = "none"
    /\ lives_call' = NoCall
    /\ NoRecompute
    /\ UNCHANGED <<now, users_db, homeworks_db, lessons_db, next_id, settings, sweep,
                   conv, delivered>>

\* The handlers are tried in the order main_async added them, and the first
\* that accepts the update runs: a text message of the tutor goes to conv_hw
\* while that waits for a text, else to conv_lesson while that waits for the
\* topic, else to conv_settings.
TextHandler ==
    IF conv.hw \in {"text", "deadline"} THEN "conv_hw"
    ELSE IF conv.lesson = "topic" THEN "conv_lesson"
    ELSE "conv_settings"

\* conv_hw after a handler returned ConversationHandler.END
EndHw(c) == [c EXCEPT !.hw = "none", !.hw_chosen = None, !.hw_entered = None]

\* cancel (button or command): the fallback of the first open conversation
Cancel ==
    /\ conv.hw # "none" \/ conv.lesson # "none"
    /\ user_data' = NoDraft
    /\ conv' = IF conv.hw # "none"
               THEN EndHw(conv)
               ELSE [conv EXCEPT !.lesson = "none"]
    /\ reply' = "none"
    /\ lives_call' = NoCall
    /\ NoRecompute
    /\ UNCHANGED <<now, users_db, homeworks_db, lessons_db, next_id, settings, sweep,
                   delivered>>

\* tutor_select_student_hw / tutor_select_student_lesson: the keyboard
\* offers the students registered when it was drawn
TutorSelectStudent(flow, s) ==
    /\ s \in get_students(users_db)
    /\ user_data' = [NoDraft EXCEPT !.selected_student = Some(s)]
    /\ conv' = IF flow = "hw"
               THEN [conv EXCEPT !.hw = "text", !.hw_chosen = Some(s),
                                 !.hw_entered = None]
               ELSE [conv EXCEPT !.lesson = "topic"]
    /\ reply' = "none"
    /\ lives_call' = NoCall
    /\ NoRecompute
    /\ UNCHANGED <<now, users_db, homeworks_db, lessons_db, next_id, settings, sweep,
                   delivered>>

\* tutor_hw_text: the text is stored before selected_student is read; a
\* missing key raises and the conversation stays where it is
TutorHwText(x) ==
    /\ TextHandler = "conv_hw"
    /\ conv.hw = "text"
    /\ user_data' = [user_data EXCEPT !.hw_text = Some(x)]
    /\ IF user_data.selected_student = None
       THEN /\ conv' = [conv EXCEPT !.hw_entered = Some(x)]
            /\ reply' = "error"
       ELSE /\ conv' = [conv EXCEPT !.hw = "deadline", !.hw_entered = Some(x)]
            /\ reply' = "none"
    /\ lives_call' = NoCall
    /\ NoRecompute
    /\ UNCHANGED <<now, users_db, homeworks_db, lessons_db, next_id, settings, sweep,
                   delivered>>

\* tutor_hw_deadline
TutorHwDeadline(text, sent) ==
    /\ TextHandler = "conv_hw"
    /\ conv.hw = "deadline"
    /\ next_id <= MaxId
    /\ IF user_data.selected_student = None
       THEN /\ reply' = "error"
            /\ NoRecompute
            /\ UNCHANGED <<homeworks_db, next_id, user_data, conv>>
       ELSE LET student_id == user_data.selected_student[1]
                student_tz == StudentTz(users_db, settings, student_id)
                deadline   == parse_datetime(text, student_tz)
            IN IF deadline = None
               THEN /\ reply' = "bad_format"
                    /\ NoRecompute
                    /\ UNCHANGED <<homeworks_db, next_id, user_data, conv>>
               ELSE IF user_data.hw_text = None
               THEN /\ reply' = "error"
                    /\ NoRecompute
                    /\ UNCHANGED <<homeworks_db, next_id, user_data, conv>>
               ELSE /\ homeworks_db' = Append(homeworks_db,
                           NewHomework(next_id, student_id, TUTOR_ID,
                                       user_data.hw_text[1], deadline[1]))
                    /\ next_id' = next_id + 1
                    /\ reply' = IF sent THEN "hw_added" ELSE "error"
                    /\ user_data' = IF sent THEN NoDraft ELSE user_data
                    /\ conv' = IF sent THEN EndHw(conv) ELSE conv
                    /\ Recompute(sent, homeworks_db', lessons_db, users_db, settings)
    /\ lives_call' = NoCall
    /\ UNCHANGED <<now, users_db, lessons_db, settings, sweep, delivered>>

\* tutor_lesson_topic
TutorLessonTopic(x) ==
    /\ TextHandler = "conv_lesson"
    /\ user_data' = [user_data EXCEPT !.lesson_topic = Some(x)]
    /\ conv' = [conv EXCEPT !.lesson = "date"]
    /\ reply' = "none"
    /\ lives_call' = NoCall
    /\ NoRecompute
    /\ UNCHANGED <<now, users_db, homeworks_db, lessons_db, next_id, settings, sweep,
                   delivered>>

\* tutor_lesson_date: the day picked, counted from today
TutorLessonDate(d) ==
    /\ conv.lesson = "date"
    /\ user_data' = [user_data EXCEPT !.lesson_date = Some(d)]
    /\ conv' = [conv EXCEPT !.lesson = "hour"]
    /\ reply' = "none"
    /\ lives_call' = NoCall
    /\ NoRecompute
    /\ UNCHANGED <<now, users_db, homeworks_db, lessons_db, next_id, settings, sweep,
                   delivered>>

\* tutor_lesson_hour
TutorLessonHour(h) ==
    /\ conv.lesson = "hour"
    /\ user_data' = [user_data EXCEPT !.lesson_hour = Some(h)]
    /\ conv' = [conv EXCEPT !.lesson = "minute"]
    /\ reply' = "none"
    /\ lives_call' = NoCall
    /\ NoRecompute
    /\ UNCHANGED <<now, users_db, homeworks_db, lessons_db, next_id, settings, sweep,
                   delivered>>

\* the keys tutor_lesson_minute reads from the draft
LessonKeys == {"selected_student", "lesson_topic", "lesson_date", "lesson_hour"}

\* tutor_lesson_minute (whole hours: the minute picked is :00)
TutorLessonMinute(sent) ==
    /\ conv.lesson = "minute"
    /\ next_id <= MaxId
    /\ IF \E k \in LessonKeys : user_data[k] = None
       THEN /\ reply' = "error"
            /\ NoRecompute
            /\ UNCHANGED <<lessons_db, next_id, user_data, conv>>
       ELSE LET student_id  == user_data.selected_student[1]
                student_tz  == StudentTz(users_db, settings, student_id)
                dt_str      == <<user_data.lesson_date[1] * HoursPerDay
                                     + user_data.lesson_hour[1]>>
                lesson_time == parse_datetime(dt_str, student_tz)
            IN IF lesson_time = None
               THEN /\ reply' = "bad_format"
                    /\ user_data' = NoDraft
                    /\ conv' = [conv EXCEPT !.lesson = "none"]
                    /\ NoRecompute
                    /\ UNCHANGED <<lessons_db, next_id>>
               ELSE /\ lessons_db' = Append(lessons_db,
                           NewLesson(next_id, student_id, TUTOR_ID,
                                     user_data.lesson_topic[1], lesson_time[1]))
                    /\ next_id' = next_id + 1
                    /\ reply' = IF sent THEN "lesson_added" ELSE "error"
                    /\ user_data' = IF sent THEN NoDraft ELSE user_data
                    /\ conv' = IF sent THEN [conv EXCEPT !.lesson = "none"] ELSE conv
                    /\ Recompute(sent, homeworks_db, lessons_db', users_db, settings)
    /\ lives_call' = NoCall
    /\ UNCHANGED <<now, users_db, homeworks_db, settings, sweep, delivered>>

\* toggle_notification_setting
ToggleNotificationSetting(key, sent) ==
    /\ key \in {"homework_reminders", "lesson_reminders", "late_homework_alerts"}
    /\ settings' = [settings EXCEPT !.notifications[key] = ~@]
    /\ reply' = "none"
    /\ lives_call' = NoCall
    /\ Recompute(sent, homeworks_db, lessons_db, users_db, settings')
    /\ UNCHANGED <<now, users_db, homeworks_db, lessons_db, next_id, sweep, user_data, conv,
                   delivered>>

ToggleTime(times, hours) ==
    IF hours \in SeqToSet(times)
    THEN RemoveFirst(times, hours)
    ELSE sort_list(Append(times, hours))

\* toggle_notification_time
ToggleNotificationTime(key, hours, sent) ==
    /\ key \in {"homework_times", "lesson_times"}
    /\ settings' = [settings EXCEPT !.notifications[key] = ToggleTime(@, hours)]
    /\ reply' = "none"
    /\ lives_call' = NoCall
    /\ Recompute(sent, homeworks_db, lessons_db, users_db, settings')
    /\ UNCHANGED <<now, users_db, homeworks_db, lessons_db, next_id, sweep, user_data, conv,
                   delivered>>

\* toggle_lives_setting
ToggleLivesSetting(key) ==
    /\ key \in {"enabled", "show_to_student"}
    /\ settings' = [settings EXCEPT !.lives[key] = ~@]
    /\ reply' = "none"
    /\ lives_call' = NoCall
    /\ NoRecompute
    /\ UNCHANGED <<now, users_db, homeworks_db, lessons_db, next_id, sweep, user_data, conv,
                   delivered>>

\* a set_lives_value_save that stores the new ceiling and leaves the balances
LowerLives_NoClamp(users, new_value) == users

LowerLives(users, new_value) ==
    [u \in DOMAIN users |->
        IF users[u].role = "student"
        THEN [users[u] EXCEPT !.lives = Min(@, new_value)]
        ELSE users[u]]

\* set_lives_value_save
SetLivesValueSave(key, new_value) ==
    /\ TextHandler = "conv_settings"
    /\ key \in {"max_lives", "penalty_late", "penalty_lesson", "reward_early",
                "auto_reset_days"}
    /\ IF new_value < 0
       THEN UNCHANGED <<settings, users_db, user_data, conv>>
       ELSE /\ settings' = [settings EXCEPT !.lives[key] = new_value]
            /\ users_db' = IF key = "max_lives"
                           THEN LowerLives(users_db, new_value)
                           ELSE users_db
            /\ user_data' = NoDraft
    /\ reply' = "none"
    /\ lives_call' = NoCall
    /\ NoRecompute
    /\ UNCHANGED <<now, homeworks_db, lessons_db, next_id, sweep, conv, delivered>>

\* a set_timezone that also reads every stored deadline again in the new zone
SetTimezone_Relocalizes(tz, sent) ==
    /\ settings' = [settings EXCEPT !.timezone = tz]
    /\ homeworks_db' = [i \in 1..Len(homeworks_db) |->
                           [homeworks_db[i] EXCEPT !.deadline =
                                @ + UtcOffset(settings.timezone) - UtcOffset(tz)]]
    /\ reply' = "none"
    /\ lives_call' = NoCall
    /\ Recompute(sent, homeworks_db', lessons_db, users_db, settings')
    /\ UNCHANGED <<now, users_db, lessons_db, next_id, sweep, user_data, conv,
                   delivered>>

\* set_timezone
SetTimezone(tz, sent) ==
    /\ settings' = [settings EXCEPT !.timezone = tz]
    /\ reply' = "none"
    /\ lives_call' = NoCall
    /\ Recompute(sent, homeworks_db, lessons_db, users_db, settings')
    /\ UNCHANGED <<now, users_db, homeworks_db, lessons_db, next_id, sweep, user_data, conv,
                   delivered>>

\* reset_lives_command sent by user u (user_data is the tutor's: a sender who
\* is not the tutor is turned away before anything is touched)
ResetLivesCommand(u) ==
    /\ IF ~is_tutor(users_db, u)
       THEN /\ reply' = "tutor_only"
            /\ UNCHANGED <<users_db, user_data>>
       ELSE /\ users_db' = [x \in DOMAIN users_db |->
                              IF users_db[x].role = "student"
                              THEN [users_db[x] EXCEPT
                                       !.lives = settings.lives.max_lives,
                                       !.last_life_reset = [t |-> now, aware |-> TRUE]]
                              ELSE users_db[x]]
            /\ user_data' = NoDraft
            /\ reply' = "none"
    /\ lives_call' = NoCall
    /\ NoRecompute
    /\ UNCHANGED <<now, homeworks_db, lessons_db, next_id, settings, sweep, conv,
                   delivered>>

\* the sweep's snapshot holds the homework dictionaries themselves: once a
\* homework is dropped from homeworks_db the sweep writes to a detached one
Detach(q, students) ==
    [i \in 1..Len(q) |->
        IF q[i].student_id \in students THEN [q[i] EXCEPT !.live = FALSE] ELSE q[i]]

\* clear_all_confirm
ClearAllConfirm ==
    /\ users_db' = [u \in DOMAIN users_db \cap {TUTOR_ID} |-> users_db[u]]
    /\ homeworks_db' = <<>>
    /\ lessons_db' = <<>>
    /\ next_id' = 1
    /\ sweep' = [sweep EXCEPT !.queue = Detach(@, {h.student_id : h \in SeqToSet(homeworks_db)})]
    /\ reply' = "none"
    /\ lives_call' = NoCall
    /\ NoRecompute
    /\ UNCHANGED <<now, settings, user_data, conv, delivered>>

\* a deletion that removes the user and leaves the user's entries
WithoutStudent_Keep(q, s) == q

\* [e for e in q if e['student_id'] != student_id]
WithoutStudent(q, s) == SelectSeq(q, LAMBDA e : e.student_id # s)

\* tutor_delete_student_execute
DeleteStudentExecute(s) ==
    /\ IF HasUser(users_db, s)
       THEN /\ users_db' = [u \in DOMAIN users_db \ {s} |-> users_db[u]]
            /\ homeworks_db' = WithoutStudent(homeworks_db, s)
            /\ lessons_db' = WithoutStudent(lessons_db, s)
            /\ sweep' = [sweep EXCEPT
                            !.queue = Detach(@, {s})]
            /\ reply' = "student_deleted"
       ELSE /\ UNCHANGED <<users_db, homeworks_db, lessons_db, sweep>>
            /\ reply' = "student_not_found"
    /\ lives_call' = NoCall
    /\ NoRecompute
    /\ UNCHANGED <<now, next_id, settings, user_data, conv, delivered>>

\* clear_all_confirm and tutor_delete_student_execute on a callback query of
\* user u: neither handler reads the sender of the query
ClearAllConfirmBy(u) == ClearAllConfirm

DeleteStudentExecuteBy(u, s) == DeleteStudentExecute(s)

\* update_lives(student_id, delta) called on its own
UpdateLives(student_id, delta) ==
    /\ users_db' = update_lives(users_db, settings, student_id, delta)
    /\ lives_call' = LivesCall(users_db, settings, student_id, delta)
    /\ reply' = "none"
    /\ NoRecompute
    /\ UNCHANGED <<now, homeworks_db, lessons_db, next_id, settings, sweep, user_data, conv,
                   delivered>>

---------------------------------------------------------------------------
\* a lookup by id alone, whoever the homework belongs to
FindHomework_AnyStudent(hws, hw_id, user_id) ==
    LET idx == {i \in 1..Len(hws) : hws[i].id = hw_id}
    IN IF idx = {} THEN 0 ELSE CHOOSE i \in idx : \A k \in idx : i <= k

\* complete_homework: the first homework with this id that belongs to the user
FindHomework(hws, hw_id, user_id) ==
    LET idx == {i \in 1..Len(hws) : hws[i].id = hw_id /\ hws[i].student_id = user_id}
    IN IF idx = {} THEN 0 ELSE CHOOSE i \in idx : \A k \in idx : i <= k

\* a completion at the deadline itself counted as early
IsEarly_AtDeadline(deadline, t) == deadline >= t

IsEarly(deadline, t) == deadline > t

\* the early reward complete_homework credits (0: none)
LivesChange(st, is_early) ==
    IF st.lives.enabled /\ is_early /\ st.lives.reward_early > 0
    THEN st.lives.reward_early
    ELSE 0

\* a completion that sets the flag and leaves the time unset
MarkCompleted_NoStamp(hw, t) == [hw EXCEPT !.is_completed = TRUE]

\* hw['is_completed'] = True; hw['completed_at'] = now
MarkCompleted(hw, t) ==
    [hw EXCEPT !.is_completed = TRUE, !.completed_at = Some(t)]

\* complete_homework
CompleteHomework(user_id, hw_id, sent) ==
    LET i == FindHomework(homeworks_db, hw_id, user_id) IN
    /\ IF i = 0
       THEN /\ reply' = "hw_not_found"
            /\ lives_call' = NoCall
            /\ UNCHANGED <<homeworks_db, users_db>>
       ELSE LET hw       == homeworks_db[i]
                is_early == IsEarly(hw.deadline, now)
                change   == LivesChange(settings, is_early)
                tutor    == HasUser(users_db, hw.tutor_id)
                student  == HasUser(users_db, user_id)
                \* student['full_name'] raises when the student is gone
                raised   == tutor /\ (~student \/ ~sent)
            IN /\ hw.completions < MaxCompletions
               /\ homeworks_db' = [homeworks_db EXCEPT ![i] =
                      [MarkCompleted(@, now) EXCEPT
                                !.completions = @ + 1,
                                !.rewards = IF change > 0 THEN @ + 1 ELSE @]]
               /\ users_db' = IF change > 0
                              THEN update_lives(users_db, settings, user_id, change)
                              ELSE users_db
               /\ lives_call' = IF change > 0
                                THEN LivesCall(users_db, settings, user_id, change)
                                ELSE NoCall
               /\ reply' = IF raised THEN "error"
                           ELSE IF is_early THEN "hw_done_early"
                           ELSE "hw_done_late"
    /\ NoRecompute
    /\ UNCHANGED <<now, lessons_db, next_id, settings, sweep, user_data, conv, delivered>>

---------------------------------------------------------------------------
\* check_late_homeworks
SnapshotEntry(h) ==
    [id |-> h.id, student_id |-> h.student_id, tutor_id |-> h.tutor_id, live |-> TRUE]

Snapshot(hws) == [i \in 1..Len(hws) |-> SnapshotEntry(hws[i])]

\* a sweep that also closes the homework it marks
MarkLate_Completes(hws, e) ==
    [i \in 1..Len(hws) |->
        IF e.live /\ hws[i].id = e.id
        THEN [hws[i] EXCEPT !.late_notified = TRUE, !.is_completed = TRUE]
        ELSE hws[i]]

\* the sweep's writes reach homeworks_db only through a dictionary still in it
MarkLate(hws, e) ==
    [i \in 1..Len(hws) |->
        IF e.live /\ hws[i].id = e.id
        THEN [hws[i] EXCEPT !.late_notified = TRUE]
        ELSE hws[i]]

CountAlert(hws, e) ==
    [i \in 1..Len(hws) |->
        IF e.live /\ hws[i].id = e.id
        THEN [hws[i] EXCEPT !.alerts = @ + 1]
        ELSE hws[i]]

CountPenalty(hws, e) ==
    [i \in 1..Len(hws) |->
        IF e.live /\ hws[i].id = e.id
        THEN [hws[i] EXCEPT !.penalties = @ + 1]
        ELSE hws[i]]

SkipsHomework(users, e) ==
    ~HasUser(users, e.student_id) \/ ~HasUser(users, e.tutor_id)

RECURSIVE SweepRun(_, _, _, _)
RECURSIVE SweepLives(_, _, _, _)

\* the loop from the top of an iteration up to the next await (or the end)
SweepRun(q, hws, users, st) ==
    IF q = <<>>
    THEN [pc |-> "idle", queue |-> <<>>, hws |-> hws, users |-> users,
          call |-> NoCall]
    ELSE LET e == Head(q) IN
         IF SkipsHomework(users, e)
         THEN SweepRun(Tail(q), hws, users, st)
         ELSE IF st.notifications.late_homework_alerts
              THEN [pc |-> "alert", queue |-> q,
                    hws |-> MarkLate(hws, e), users |-> users, call |-> NoCall]
              ELSE SweepLives(q, MarkLate(hws, e), users, st)

\* the iteration from `if settings['lives']['enabled']` on
SweepLives(q, hws, users, st) ==
    LET e == Head(q) IN
    IF st.lives.enabled
    THEN [pc |-> "penalty", queue |-> q,
          hws |-> IF HasUser(users, e.student_id) THEN CountPenalty(hws, e) ELSE hws,
          users |-> update_lives(users, st, e.student_id, -st.lives.penalty_late),
          call |-> LivesCall(users, st, e.student_id, -st.lives.penalty_late)]
    ELSE SweepRun(Tail(q), hws, users, st)

SweepTo(r, started) ==
    /\ sweep' = [pc |-> r.pc, queue |-> r.queue,
                 started |-> IF r.pc = "idle" THEN {} ELSE started]
    /\ homeworks_db' = r.hws
    /\ users_db' = r.users
    /\ lives_call' = r.call

IsSweepJob(j, kind) == j.kind = kind /\ j.run_date <= now

\* an interval job after a run: the next run is one interval later
Rearm(js, j) == (js \ {j}) \cup {[j EXCEPT !.run_date = @ + j.hours]}

\* the scheduler runs the check_late_homeworks job (max_instances = 1: a
\* run that finds the previous one still running is skipped)
FireLateSweep ==
    \E j \in jobs :
        /\ IsSweepJob(j, "check_late_homeworks")
        /\ jobs' = Rearm(jobs, j)
        /\ IF sweep.pc = "idle"
           THEN SweepTo(SweepRun(Snapshot(get_late_homeworks(homeworks_db, now)),
                                 homeworks_db, users_db, settings),
                        {h.id : h \in SeqToSet(get_late_homeworks(homeworks_db, now))})
           ELSE /\ UNCHANGED <<sweep, homeworks_db, users_db>>
                /\ lives_call' = NoCall
        /\ recomputed' = FALSE
        /\ reply' = "none"
        /\ UNCHANGED <<now, lessons_db, next_id, settings, sched_errors, user_data, conv,
                       delivered>>

\* the send the sweep is suspended in returns (sent) or raises
SweepResume(sent) ==
    /\ sweep.pc # "idle"
    /\ IF sweep.pc = "alert"
       THEN IF sent
            THEN SweepTo(SweepLives(sweep.queue,
                                    CountAlert(homeworks_db, Head(sweep.queue)),
                                    users_db, settings),
                         sweep.started)
            ELSE SweepTo(SweepRun(Tail(sweep.queue), homeworks_db, users_db, settings),
                         sweep.started)
       ELSE SweepTo(SweepRun(Tail(sweep.queue), homeworks_db, users_db, settings),
                    sweep.started)
    /\ recomputed' = FALSE
    /\ reply' = "none"
    /\ UNCHANGED <<now, lessons_db, next_id, settings, jobs, sched_errors, user_data, conv,
                   delivered>>

---------------------------------------------------------------------------
\* (now - last_reset).days; None when the subtraction raises (an aware
\* datetime minus the naive one register_user stored)
DaysPassed(last, t) ==
    IF last.aware THEN Some((t - last.t) \div HoursPerDay) ELSE None

\* a check that resets every student at every run
ResetsUser_Always(u, st, t) == u.role = "student"

ResetsUser(u, st, t) ==
    /\ u.role = "student"
    /\ DaysPassed(u.last_life_reset, t) # None
    /\ DaysPassed(u.last_life_reset, t)[1] >= st.lives.auto_reset_days

check_and_reset_lives(users, st, t) ==
    [u \in DOMAIN users |->
        IF ResetsUser(users[u], st, t)
        THEN [users[u] EXCEPT !.lives = st.lives.max_lives,
                              !.last_life_reset = [t |-> t, aware |-> TRUE]]
        ELSE users[u]]

\* check_and_reset_lives() called on its own; the reply tells whether the
\* call sent a student the reset message
CheckAndResetLives ==
    /\ users_db' = check_and_reset_lives(users_db, settings, now)
    /\ reply' = IF \E u \in DOMAIN users_db : ResetsUser(users_db[u], settings, now)
                THEN "lives_reset"
                ELSE "no_reset"
    /\ lives_call' = NoCall
    /\ NoRecompute
    /\ UNCHANGED <<now, homeworks_db, lessons_db, next_id, settings, sweep, user_data,
                   conv, delivered>>

\* the scheduler runs the reset_lives_check job
FireResetSweep ==
    \E j \in jobs :
        /\ IsSweepJob(j, "reset_lives_check")
        /\ jobs' = Rearm(jobs, j)
        /\ users_db' = check_and_reset_lives(users_db, settings, now)
        /\ recomputed' = FALSE
        /\ reply' = "none"
        /\ lives_call' = NoCall
        /\ UNCHANGED <<now, homeworks_db, lessons_db, next_id, settings, sweep,
                       sched_errors, user_data, conv, delivered>>

\* send_reminder has not run for this (kind, offset, entity)
NotRun == [runs |-> 0, failed |-> 0]

\* send_reminder has run once more for this (kind, offset, entity); the send
\* went through (sent) or raised
Delivered(d, j, sent) ==
    [id \in DOMAIN d \cup {JobId(j)} |->
        LET old == IF id \in DOMAIN d THEN d[id] ELSE NotRun IN
        IF id = JobId(j)
        THEN [runs |-> old.runs + 1,
              failed |-> IF sent THEN old.failed ELSE old.failed + 1]
        ELSE old]

\* the scheduler runs a reminder job: send_reminder, which logs an exception
\* of the send and returns; a date job is removed once it has run
FireReminder(sent) ==
    \E j \in jobs :
        /\ j.kind \in {"hw", "lesson"}
        /\ j.run_date <= now
        /\ jobs' = jobs \ {j}
        /\ delivered' = Delivered(delivered, j, sent)
        /\ recomputed' = FALSE
        /\ reply' = "none"
        /\ lives_call' = NoCall
        /\ UNCHANGED <<now, users_db, homeworks_db, lessons_db, next_id, settings,
                       sweep, sched_errors, user_data, conv>>

\* the clock advances to t; the scheduler wakes for every job at its time
Tick(t) ==
    /\ t > now
    /\ sweep.pc = "idle"
    /\ \A j \in jobs : j.run_date >= t
    /\ now' = t
    /\ recomputed' = FALSE
    /\ reply' = "none"
    /\ lives_call' = NoCall
    /\ UNCHANGED <<users_db, homeworks_db, lessons_db, next_id, settings, jobs,
                   sweep, sched_errors, user_data, conv, delivered>>

---------------------------------------------------------------------------
\* Inputs
LocalDeadlines == {4, 7, 30}
DeadlineTexts == {<<>>} \cup {<<t>> : t \in LocalDeadlines}
HwTexts == {"a", "b"}
LessonDays == {0, 1}
LessonHours == 8..21
LivesValues == {0, 2}
Deltas == {-10, -2, 0, 1, 3}

\* users send updates up to MaxTime; later only the scheduler's jobs run
UserActs == now <= MaxTime

\* the tutor is in neither flow
FlowIdle == conv.hw = "none" /\ conv.lesson = "none"

\* the hours the clock may advance to
TickTargets(last) ==
    (1..MaxTime) \cup {j.run_date : j \in {k \in jobs : k.run_date <= last}}

Next ==
    \/ \E u \in UserIds : Start(u)
    \/ \E f \in {"hw", "lesson"}, s \in Students : TutorSelectStudent(f, s)
    \/ Menu
    \/ Cancel
    \/ \E x \in HwTexts : TutorHwText(x)
    \/ \E x \in DeadlineTexts, sent \in BOOLEAN : TutorHwDeadline(x, sent)
    \/ \E x \in HwTexts : TutorLessonTopic(x)
    \/ \E d \in LessonDays : TutorLessonDate(d)
    \/ \E h \in LessonHours : TutorLessonHour(h)
    \/ \E sent \in BOOLEAN : TutorLessonMinute(sent)
    \/ \E k \in {"homework_reminders", "lesson_reminders", "late_homework_alerts"},
          sent \in BOOLEAN : ToggleNotificationSetting(k, sent)
    \/ \E k \in {"homework_times", "lesson_times"}, h \in OfferedTimes,
          sent \in BOOLEAN : ToggleNotificationTime(k, h, sent)
    \/ \E k \in {"enabled", "show_to_student"} : ToggleLivesSetting(k)
    \/ \E k \in {"max_lives", "penalty_late", "reward_early", "auto_reset_days"},
          v \in LivesValues : SetLivesValueSave(k, v)
    \/ \E z \in Zones, sent \in BOOLEAN : SetTimezone(z, sent)
    \/ \E u \in UserIds : ResetLivesCommand(u)
    \/ ClearAllConfirm
    \/ \E s \in Students : DeleteStudentExecute(s)
    \/ \E u \in Students, i \in 1..MaxId, sent \in BOOLEAN : CompleteHomework(u, i, sent)
    \/ FireLateSweep
    \/ \E sent \in BOOLEAN : SweepResume(sent)
    \/ FireResetSweep
    \/ \E sent \in BOOLEAN : FireReminder(sent)
    \/ \E t \in TickTargets(LastTime) : Tick(t)

Spec == Init /\ [][Next]_vars

---------------------------------------------------------------------------
\* The lives ledger: registration, homework, completion, the two sweeps and
\* the lives settings.  The one deadline is an hour ahead, so no reminder
\* offset is still due and the store holds the two sweep jobs only.
NextLives ==
    \/ now = 0 /\ \E u \in {1, TUTOR_ID} : Start(u)
    \/ UserActs /\ TutorSelectStudent("hw", 1)
    \/ UserActs /\ TutorHwText("a")
    \/ UserActs /\ TutorHwDeadline(<<4>>, TRUE)
    \/ UserActs /\ ToggleLivesSetting("enabled")
    \/ UserActs /\ \E v \in {2, 6} : SetLivesValueSave("max_lives", v)
    \/ UserActs /\ SetLivesValueSave("auto_reset_days", 0)
    \/ UserActs /\ ResetLivesCommand(TUTOR_ID)
    \/ UserActs /\ \E i \in 1..MaxId : CompleteHomework(1, i, TRUE)
    \/ FireLateSweep
    \/ \E sent \in BOOLEAN : SweepResume(sent)
    \/ FireResetSweep
    \/ \E t \in TickTargets(ResetTime) : Tick(t)

SpecLives == Init /\ [][NextLives]_vars

---------------------------------------------------------------------------
\* The late sweep with the settings as shipped (late alerts and the lives
\* policy enabled): one student, homework, completion, deletion
NextLate ==
    \/ now = 0 /\ \E u \in {1, TUTOR_ID} : Start(u)
    \/ UserActs /\ TutorSelectStudent("hw", 1)
    \/ UserActs /\ TutorHwText("a")
    \/ UserActs /\ \E x \in {<<4>>, <<7>>} : TutorHwDeadline(x, TRUE)
    \/ UserActs /\ \E i \in 1..MaxId : CompleteHomework(1, i, TRUE)
    \/ UserActs /\ DeleteStudentExecute(1)
    \/ FireLateSweep
    \/ \E sent \in BOOLEAN : SweepResume(sent)
    \/ FireReminder(TRUE)
    \/ \E t \in TickTargets(LastTime) : Tick(t)

SpecLate == Init /\ [][NextLate]_vars

---------------------------------------------------------------------------
\* Completion: homework for student 1, completion attempts by student 1 and
\* by another user, the reward and the ceiling changed, the policy toggled
NextDone ==
    \/ now = 0 /\ \E u \in {1, TUTOR_ID} : Start(u)
    \/ UserActs /\ TutorSelectStudent("hw", 1)
    \/ UserActs /\ TutorHwText("a")
    \/ UserActs /\ TutorHwDeadline(<<4>>, TRUE)
    \/ UserActs /\ ToggleLivesSetting("enabled")
    \/ UserActs /\ SetLivesValueSave("reward_early", 0)
    \/ UserActs /\ \E v \in {3, 5} : SetLivesValueSave("max_lives", v)
    \/ UserActs /\ \E u \in Students, i \in 1..MaxId, sent \in BOOLEAN :
                       CompleteHomework(u, i, sent)
    \/ FireLateSweep
    \/ SweepResume(TRUE)
    \/ \E t \in TickTargets(LastTime) : Tick(t)

SpecDone == Init /\ [][NextDone]_vars

---------------------------------------------------------------------------
\* The reminder scheduler: homeworks and lessons for student 1, reminder
\* settings toggled, completion, deletion, the jobs firing.  The tutor works
\* from /menu and has not sent /start (is_tutor holds by TUTOR_ID), so the
\* late sweep passes over every homework, and finishes a flow before starting
\* another one or changing a setting.
NextSched ==
    \/ now = 0 /\ Start(1)
    \/ UserActs /\ FlowIdle /\ \E f \in {"hw", "lesson"} : TutorSelectStudent(f, 1)
    \/ UserActs /\ TutorHwText("a")
    \/ UserActs /\ \E x \in {<<7>>, <<30>>} : TutorHwDeadline(x, TRUE)
    \/ UserActs /\ TutorLessonTopic("a")
    \/ UserActs /\ TutorLessonDate(1)
    \/ UserActs /\ TutorLessonHour(8)
    \/ UserActs /\ TutorLessonMinute(TRUE)
    \/ UserActs /\ FlowIdle /\ \E k \in {"homework_reminders", "lesson_reminders"} :
                                   ToggleNotificationSetting(k, TRUE)
    \/ UserActs /\ FlowIdle /\ ToggleNotificationTime("homework_times", 2, TRUE)
    \/ UserActs /\ FlowIdle /\ ToggleNotificationTime("lesson_times", 24, TRUE)
    \/ UserActs /\ FlowIdle /\ SetTimezone(TIMEZONE, TRUE)
    \/ UserActs /\ \E i \in 1..MaxId : CompleteHomework(1, i, TRUE)
    \/ UserActs /\ DeleteStudentExecute(1)
    \/ FireLateSweep
    \/ FireReminder(TRUE)
    \/ \E t \in TickTargets(LastTime) : Tick(t)

SpecSched == Init /\ [][NextSched]_vars

---------------------------------------------------------------------------
\* update_lives on its own: every balance a student can have under three
\* ceilings, the policy on and off, the lives message on and off, and
\* penalties and rewards of several sizes
NextAdjust ==
    \/ UserActs /\ \E u \in Students : Start(u)
    \/ UserActs /\ \E k \in {"enabled", "show_to_student"} : ToggleLivesSetting(k)
    \/ UserActs /\ \E v \in {0, 2, 5} : SetLivesValueSave("max_lives", v)
    \/ UserActs /\ \E s \in Students, d \in Deltas : UpdateLives(s, d)

SpecAdjust == Init /\ [][NextAdjust]_vars

---------------------------------------------------------------------------
\* The late sweep against the student: homeworks for student 1 that go late,
\* and complete_homework updates that arrive while check_late_homeworks is
\* suspended in a send (the sweep is a scheduler job on the bot's event loop)
NextRace ==
    \/ now = 0 /\ \E u \in {1, TUTOR_ID} : Start(u)
    \/ UserActs /\ TutorSelectStudent("hw", 1)
    \/ UserActs /\ TutorHwText("a")
    \/ UserActs /\ TutorHwDeadline(<<4>>, TRUE)
    \/ (UserActs \/ sweep.pc # "idle") /\ \E i \in 1..MaxId : CompleteHomework(1, i, TRUE)
    \/ FireLateSweep
    \/ \E sent \in BOOLEAN : SweepResume(sent)
    \/ \E t \in TickTargets(LastTime) : Tick(t)

SpecRace == Init /\ [][NextRace]_vars

---------------------------------------------------------------------------
\* Everything that runs beside a completion: homeworks for student 1 with a
\* reminder still due, completion attempts by the student and by another
\* user, a reminder offset and the time zone changed (each recomputes the
\* jobs), the lives policy toggled, both sweeps and the reminders firing
NextFrame ==
    \/ now = 0 /\ \E u \in {1, TUTOR_ID} : Start(u)
    \/ UserActs /\ TutorSelectStudent("hw", 1)
    \/ UserActs /\ TutorHwText("a")
    \/ UserActs /\ TutorHwDeadline(<<7>>, TRUE)
    \/ UserActs /\ \E u \in Students, i \in 1..MaxId : CompleteHomework(u, i, TRUE)
    \/ UserActs /\ ToggleNotificationTime("homework_times", 2, TRUE)
    \/ UserActs /\ SetTimezone(TIMEZONE, TRUE)
    \/ UserActs /\ ToggleLivesSetting("enabled")
    \/ FireLateSweep
    \/ SweepResume(TRUE)
    \/ FireResetSweep
    \/ FireReminder(TRUE)
    \/ \E t \in TickTargets(ResetTime) : Tick(t)

SpecFrame == Init /\ [][NextFrame]_vars

---------------------------------------------------------------------------
\* The handlers that end with schedule_reminders, each with its reply to the
\* tutor delivered or raising: homeworks and lessons for student 1, the
\* reminder switches and offsets, the time zone
NextCommit ==
    \/ now = 0 /\ Start(1)
    \/ UserActs /\ \E f \in {"hw", "lesson"} : TutorSelectStudent(f, 1)
    \/ UserActs /\ TutorHwText("a")
    \/ UserActs /\ \E sent \in BOOLEAN : TutorHwDeadline(<<7>>, sent)
    \/ UserActs /\ TutorLessonTopic("a")
    \/ UserActs /\ TutorLessonDate(1)
    \/ UserActs /\ TutorLessonHour(8)
    \/ UserActs /\ \E sent \in BOOLEAN : TutorLessonMinute(sent)
    \/ UserActs /\ \E sent \in BOOLEAN :
                       ToggleNotificationSetting("homework_reminders", sent)
    \/ UserActs /\ \E sent \in BOOLEAN :
                       ToggleNotificationTime("lesson_times", 24, sent)
    \/ UserActs /\ \E z \in Zones, sent \in BOOLEAN : SetTimezone(z, sent)
    \/ FireLateSweep
    \/ FireReminder(TRUE)
    \/ \E t \in TickTargets(LastTime) : Tick(t)

SpecCommit == Init /\ [][NextCommit]_vars

---------------------------------------------------------------------------
\* The roster: two students who register (and register again), homeworks and
\* lessons added for either, and students deleted at any point of a flow
NextRoster ==
    \/ UserActs /\ \E u \in Students : Start(u)
    \/ UserActs /\ \E f \in {"hw", "lesson"}, s \in Students : TutorSelectStudent(f, s)
    \/ UserActs /\ TutorHwText("a")
    \/ UserActs /\ TutorHwDeadline(<<7>>, TRUE)
    \/ UserActs /\ TutorLessonTopic("a")
    \/ UserActs /\ TutorLessonDate(1)
    \/ UserActs /\ TutorLessonHour(8)
    \/ UserActs /\ TutorLessonMinute(TRUE)
    \/ UserActs /\ \E s \in Students : DeleteStudentExecute(s)
    \/ FireLateSweep
    \/ FireReminder(TRUE)
    \/ \E t \in TickTargets(LastTime) : Tick(t)

SpecRoster == Init /\ [][NextRoster]_vars

---------------------------------------------------------------------------
\* The users table: the tutor and two students register at any hour, students
\* are deleted and register again, everything is cleared, and the handlers
\* that rewrite user records (the ceiling, /reset_lives) run in between
NextUsers ==
    \/ UserActs /\ \E u \in UserIds : Start(u)
    \/ UserActs /\ \E s \in Students : DeleteStudentExecute(s)
    \/ UserActs /\ ClearAllConfirm
    \/ UserActs /\ SetLivesValueSave("max_lives", 2)
    \/ UserActs /\ ResetLivesCommand(TUTOR_ID)
    \/ \E t \in 1..MaxTime : Tick(t)

SpecUsers == Init /\ [][NextUsers]_vars

---------------------------------------------------------------------------
\* The tutor's chat: both flows for either student, entered and re-entered in
\* any order, deadlines that parse and one that does not, with /menu and
\* cancel between the steps
NextDraft ==
    \/ now = 0 /\ \E u \in Students : Start(u)
    \/ \E f \in {"hw", "lesson"}, s \in Students : TutorSelectStudent(f, s)
    \/ \E x \in HwTexts : TutorHwText(x)
    \/ \E x \in {<<>>, <<7>>} : TutorHwDeadline(x, TRUE)
    \/ TutorLessonTopic("a")
    \/ TutorLessonDate(1)
    \/ TutorLessonHour(8)
    \/ TutorLessonMinute(TRUE)
    \/ Menu
    \/ Cancel

SpecDraft == Init /\ [][NextDraft]_vars

---------------------------------------------------------------------------
\* The reminders as they fire: homeworks for student 1 with reminders at
\* different hours, each send_reminder run delivering or failing, and a
\* reminder offset toggled (a recompute) before and after the runs
NextRemind ==
    \/ now = 0 /\ Start(1)
    \/ UserActs /\ TutorSelectStudent("hw", 1)
    \/ UserActs /\ TutorHwText("a")
    \/ UserActs /\ \E x \in {<<7>>, <<30>>} : TutorHwDeadline(x, TRUE)
    \/ UserActs /\ ToggleNotificationTime("homework_times", 2, TRUE)
    \/ FireLateSweep
    \/ \E sent \in BOOLEAN : FireReminder(sent)
    \/ \E t \in TickTargets(LastTime) : Tick(t)

SpecRemind == Init /\ [][NextRemind]_vars

---------------------------------------------------------------------------
\* The ids: homeworks and lessons created for student 1, reminder offsets
\* switched off and on again, the student deleted and registered again,
\* everything cleared (the id counter starts again at 1), reminders firing
NextIds ==
    \/ UserActs /\ Start(1)
    \/ UserActs /\ FlowIdle /\ \E f \in {"hw", "lesson"} : TutorSelectStudent(f, 1)
    \/ UserActs /\ TutorHwText("a")
    \/ UserActs /\ \E x \in {<<7>>, <<30>>} : TutorHwDeadline(x, TRUE)
    \/ UserActs /\ TutorLessonTopic("a")
    \/ UserActs /\ TutorLessonDate(1)
    \/ UserActs /\ TutorLessonHour(8)
    \/ UserActs /\ TutorLessonMinute(TRUE)
    \/ UserActs /\ FlowIdle /\ \E k \in {"homework_times", "lesson_times"} :
                                   ToggleNotificationTime(k, 12, TRUE)
    \/ UserActs /\ DeleteStudentExecute(1)
    \/ UserActs /\ ClearAllConfirm
    \/ FireReminder(TRUE)
    \/ \E t \in 1..MaxTime : Tick(t)

SpecIds == Init /\ [][NextIds]_vars

---------------------------------------------------------------------------
\* The automatic reset: a student whose lives the tutor has reset by command,
\* the interval set to one day or to none, lives taken away at any hour, and
\* check_and_reset_lives run by its job and on its own at any hour up to
\* ResetTime
NextReset ==
    \/ now = 0 /\ Start(1)
    \/ UserActs /\ ResetLivesCommand(TUTOR_ID)
    \/ UserActs /\ \E v \in {0, 1} : SetLivesValueSave("auto_reset_days", v)
    \/ UpdateLives(1, -2)
    \/ CheckAndResetLives
    \/ FireLateSweep
    \/ FireResetSweep
    \/ \E t \in TickTargets(ResetTime) \cup (ResetSweepHours..ResetTime) : Tick(t)

SpecReset == Init /\ [][NextReset]_vars

---------------------------------------------------------------------------
\* Who may do what: the tutor adds a homework for student 1, lives are taken
\* away, and /reset_lives, the clear-all confirmation and the delete
\* confirmation arrive from the tutor and from either student
NextGuard ==
    \/ now = 0 /\ \E u \in UserIds : Start(u)
    \/ UserActs /\ TutorSelectStudent("hw", 1)
    \/ UserActs /\ TutorHwText("a")
    \/ UserActs /\ TutorHwDeadline(<<7>>, TRUE)
    \/ UserActs /\ UpdateLives(1, -2)
    \/ UserActs /\ \E u \in UserIds : ResetLivesCommand(u)
    \/ UserActs /\ \E u \in UserIds : ClearAllConfirmBy(u)
    \/ UserActs /\ \E u \in UserIds : DeleteStudentExecuteBy(u, 1)
    \/ \E t \in 1..MaxTime : Tick(t)

SpecGuard == Init /\ [][NextGuard]_vars

---------------------------------------------------------------------------
\* Homeworks added after their deadline: every homework is committed at hour
\* MaxTime with a deadline an hour back, for student 1, with the tutor
\* registered or not; then completions and the late sweep with its sends
NextPast ==
    \/ now = 0 /\ \E u \in {1, TUTOR_ID} : Start(u)
    \/ UserActs /\ TutorSelectStudent("hw", 1)
    \/ UserActs /\ TutorHwText("a")
    \/ now = MaxTime /\ TutorHwDeadline(<<4>>, TRUE)
    \/ UserActs /\ \E i \in 1..MaxId : CompleteHomework(1, i, TRUE)
    \/ FireLateSweep
    \/ \E sent \in BOOLEAN : SweepResume(sent)
    \/ \E t \in TickTargets(LastTime) : Tick(t)

SpecPast == Init /\ [][NextPast]_vars

---------------------------------------------------------------------------
\* First contact and later ones: the tutor and two students send /start at
\* any hour, again and again, while lives are taken away, the ceiling is
\* lowered and the process-wide time zone is changed
NextContact ==
    \/ UserActs /\ \E u \in UserIds : Start(u)
    \/ UserActs /\ \E s \in Students : UpdateLives(s, -2)
    \/ UserActs /\ SetLivesValueSave("max_lives", 2)
    \/ UserActs /\ \E z \in Zones : SetTimezone(z, TRUE)
    \/ \E t \in 1..MaxTime : Tick(t)

SpecContact == Init /\ [][NextContact]_vars

---------------------------------------------------------------------------
\* C1: whatever the handlers and the sweeps have done, every student's lives
\* lies between 0 and the current max_lives.
C1_ClampInvariant ==
    \A u \in DOMAIN users_db :
        users_db[u].role = "student" =>
            /\ 0 <= users_db[u].lives
            /\ users_db[u].lives <= settings.lives.max_lives

\* max_lives was lowered to 2 and a late penalty then took the student below it
C1_Witness ==
    /\ settings.lives.max_lives = 2
    /\ 1 \in DOMAIN users_db
    /\ users_db[1].lives = 1
    /\ \E i \in 1..Len(homeworks_db) : homeworks_db[i].penalties = 1

\* the sweep is past its sends for this homework
SweepDoneWith(h) ==
    \/ sweep.pc = "idle"
    \/ ~(Head(sweep.queue).live /\ Head(sweep.queue).id = h.id)

\* C2: with late alerts and the lives policy enabled, a homework the sweep has
\* marked late_notified has had exactly one late alert delivered to the tutor
\* and exactly one late penalty applied, however many sweeps have run.
C2_ExactlyOnce ==
    \A i \in 1..Len(homeworks_db) :
        LET h == homeworks_db[i] IN
        (h.late_notified /\ SweepDoneWith(h)) => (h.alerts = 1 /\ h.penalties = 1)

\* the homework complete_homework(user, hw_id) finds, if it is in this state
Found(user_id, hw_id) == FindHomework(homeworks_db, hw_id, user_id)

IsCompleted(user_id, hw_id) ==
    Found(user_id, hw_id) # 0 /\ homeworks_db[Found(user_id, hw_id)].is_completed

IsOpen(user_id, hw_id) ==
    Found(user_id, hw_id) # 0 /\ ~homeworks_db[Found(user_id, hw_id)].is_completed

\* C3: a complete_homework call by its student on a homework that is already
\* completed is answered with the already-completed error, and no completed
\* homework is selected by get_late_homeworks.
C3_CompletionExclusive ==
    [][/\ \A u \in Students, i \in 1..MaxId, sent \in BOOLEAN :
              (IsCompleted(u, i) /\ CompleteHomework(u, i, sent))
                  => reply' = "already_completed"
       /\ \A k \in 1..Len(homeworks_db') :
              homeworks_db'[k].is_completed
                  => homeworks_db'[k].id \notin
                         {h.id : h \in SeqToSet(get_late_homeworks(homeworks_db', now'))}
      ]_vars

\* C4: a complete_homework call on an already completed homework changes
\* neither its completed_at nor the student's lives and sends nothing to the
\* tutor, so the early reward is credited at most once per homework.
C4_DuplicateNoChange ==
    [][\A u \in Students, i \in 1..MaxId, sent \in BOOLEAN :
           (IsCompleted(u, i) /\ CompleteHomework(u, i, sent)) =>
               LET k == Found(u, i) IN
               /\ homeworks_db'[k].completed_at = homeworks_db[k].completed_at
               /\ homeworks_db'[k].rewards = homeworks_db[k].rewards
               /\ users_db' = users_db
               /\ reply' \notin {"hw_done_early", "hw_done_late"}
      ]_vars

\* the reminder jobs of one kind, as (offset, entity, fire time)
ReminderJobs(kind) ==
    {<<j.hours, j.ent, j.run_date>> : j \in {k \in jobs : k.kind = kind}}

\* C5: in a state schedule_reminders has just produced, a second call at the
\* same now with the same homeworks, lessons, users and settings yields the
\* same job store (same ids, same fire times, the same two sweep jobs), no id
\* occurs twice in it, and the second call logs no registration error.
C5_RecomputeIdempotent ==
    recomputed =>
        /\ schedule_reminders(jobs, homeworks_db, lessons_db, users_db, settings, now)
               = [jobs |-> jobs, err |-> 0]
        /\ \A j, k \in jobs : JobId(j) = JobId(k) => j = k
        /\ sched_errors = 0

\* a recompute at hour 2 that left homework and lesson reminders in the store
C5_Witness ==
    /\ recomputed
    /\ now = MaxTime
    /\ \E j \in jobs : j.kind = "hw"
    /\ \E j \in jobs : j.kind = "lesson"

\* C6: in a state schedule_reminders has just produced at time now, every
\* homework and lesson reminder job fires strictly after now: an offset whose
\* deadline - offset is not after now is not registered.
C6_NoRetroactiveFiring ==
    recomputed =>
        \A j \in jobs : j.kind \in {"hw", "lesson"} => j.run_date > now

\* a recompute at the very hour deadline - offset of an open homework whose
\* student is registered: the offset is configured and no job was registered
C6_Witness ==
    /\ recomputed
    /\ settings.notifications.homework_reminders
    /\ \E i \in 1..Len(homeworks_db), k \in 1..Len(settings.notifications.homework_times) :
           LET h == homeworks_db[i]
               o == settings.notifications.homework_times[k]
           IN /\ IsActive(h, now)
              /\ HasUser(users_db, h.student_id)
              /\ h.deadline - o = now
              /\ ~\E j \in jobs : j.kind = "hw" /\ j.ent = h.id /\ j.hours = o

\* the homework jobs the specification derives from the tables and settings
DerivedHomeworkJobs ==
    IF settings.notifications.homework_reminders
    THEN {<<o, homeworks_db[i].id, homeworks_db[i].deadline - o>> :
              <<i, o>> \in {p \in (1..Len(homeworks_db))
                                   \X SeqToSet(settings.notifications.homework_times) :
                                LET h == homeworks_db[p[1]] IN
                                /\ ~h.is_completed
                                /\ h.deadline > now
                                /\ h.deadline - p[2] > now}}
    ELSE {}

\* C7: in a state schedule_reminders has just produced at time now, the
\* homework reminder jobs are exactly one job per pair (h, o) with h not
\* completed, h.deadline > now, o in homework_times, homework reminders
\* enabled and h.deadline - o > now, firing at h.deadline - o and identified
\* by (o, h.id); there is no other homework job.
C7_ExactHomeworkJobs ==
    recomputed =>
        /\ ReminderJobs("hw") = DerivedHomeworkJobs
        /\ Cardinality({j \in jobs : j.kind = "hw"}) = Cardinality(DerivedHomeworkJobs)

\* the lesson jobs the specification derives from the tables and settings
DerivedLessonJobs ==
    IF settings.notifications.lesson_reminders
    THEN {<<o, lessons_db[i].id, lessons_db[i].lesson_time - o>> :
              <<i, o>> \in {p \in (1..Len(lessons_db))
                                   \X SeqToSet(settings.notifications.lesson_times) :
                                LET l == lessons_db[p[1]] IN
                                /\ l.notify_student
                                /\ l.lesson_time > now
                                /\ l.lesson_time - p[2] > now}}
    ELSE {}

\* C8: in a state schedule_reminders has just produced at time now, the lesson
\* reminder jobs are exactly one job per pair (l, o) with l.lesson_time > now,
\* l.notify_student true, lesson reminders enabled, o in lesson_times and
\* l.lesson_time - o > now, firing at l.lesson_time - o; a lesson with
\* notify_student false or a disabled setting yields no lesson job.
C8_ExactLessonJobs ==
    recomputed =>
        /\ ReminderJobs("lesson") = DerivedLessonJobs
        /\ Cardinality({j \in jobs : j.kind = "lesson"}) = Cardinality(DerivedLessonJobs)

\* C9: in every state each homework reminder job in the store refers to a
\* homework that is in homeworks_db and not completed, and each lesson reminder
\* job refers to a lesson that is in lessons_db.
C9_NoStaleJobs ==
    \A j \in jobs :
        /\ j.kind = "hw" =>
               \E i \in 1..Len(homeworks_db) :
                   homeworks_db[i].id = j.ent /\ ~homeworks_db[i].is_completed
        /\ j.kind = "lesson" =>
               \E i \in 1..Len(lessons_db) : lessons_db[i].id = j.ent

\* C11: with the lives policy enabled, update_lives(student, delta) on a
\* registered student sets the balance to max(0, min(current + delta,
\* max_lives)) and returns that value, for every balance and every delta.
C11_UpdateLivesClamps ==
    [][\A s \in Students, d \in Deltas :
           (settings.lives.enabled /\ HasUser(users_db, s) /\ UpdateLives(s, d)) =>
               LET expected == Max(0, Min(users_db[s].lives + d,
                                          settings.lives.max_lives))
               IN /\ users_db'[s].lives = expected
                  /\ lives_call'.value = Some(expected)
      ]_vars

\* max 5: a penalty of 10 took a student to 0, and update_lives returned 0
C11_Witness ==
    /\ settings.lives.enabled
    /\ settings.lives.max_lives = 5
    /\ lives_call.called
    /\ lives_call.value = Some(0)
    /\ 1 \in DOMAIN users_db
    /\ users_db[1].lives = 0

\* C12: a step that sets late_notified on a homework finds it past its
\* deadline and not completed, a step that applies the late penalty for a
\* homework finds it not completed, and late_notified never goes back from
\* true to false, whatever complete_homework calls run between the sweep's
\* sends.
C12_LateOnlyWhileOpen ==
    [][\A i \in 1..Len(homeworks_db), k \in 1..Len(homeworks_db') :
           LET old == homeworks_db[i]
               new == homeworks_db'[k]
           IN old.id = new.id =>
                  /\ (~old.late_notified /\ new.late_notified)
                         => (old.deadline < now /\ ~old.is_completed)
                  /\ new.penalties > old.penalties => ~old.is_completed
                  /\ old.late_notified => new.late_notified
      ]_vars

\* C13: in every state and for every homework, completed_at is set exactly
\* when is_completed is true.
C13_CompletedAtIffCompleted ==
    \A i \in 1..Len(homeworks_db) :
        (homeworks_db[i].completed_at # None) <=> homeworks_db[i].is_completed

\* one homework completed and stamped with the hour, another still open
C13_Witness ==
    /\ \E i \in 1..Len(homeworks_db) :
           /\ homeworks_db[i].is_completed
           /\ homeworks_db[i].completed_at = Some(now)
    /\ \E i \in 1..Len(homeworks_db) :
           /\ ~homeworks_db[i].is_completed
           /\ homeworks_db[i].completed_at = None

\* C14: a step changes a homework's is_completed or completed_at only if it
\* is complete_homework called by the homework's student for that homework;
\* the sweeps, the recomputes, the reminders and the settings handlers leave
\* both unchanged, and is_completed never goes from true back to false.
C14_OnlyCompletionCompletes ==
    [][\A i \in 1..Len(homeworks_db), k \in 1..Len(homeworks_db') :
           LET old == homeworks_db[i]
               new == homeworks_db'[k]
           IN old.id = new.id =>
                  /\ (old.is_completed # new.is_completed
                         \/ old.completed_at # new.completed_at)
                        => \E sent \in BOOLEAN :
                               CompleteHomework(old.student_id, old.id, sent)
                  /\ old.is_completed => new.is_completed
      ]_vars

\* after the reset sweep: one homework completed by its student, another one
\* marked and penalised by the late sweep and still not completed
C14_Witness ==
    /\ now >= ResetSweepHours
    /\ \E i \in 1..Len(homeworks_db) :
           /\ homeworks_db[i].is_completed
           /\ homeworks_db[i].completions = 1
    /\ \E i \in 1..Len(homeworks_db) :
           /\ homeworks_db[i].late_notified
           /\ homeworks_db[i].penalties = 1
           /\ ~homeworks_db[i].is_completed
           /\ homeworks_db[i].completed_at = None

\* C15: right after a step that commits a new homework or a new lesson,
\* toggles a notification setting or a reminder offset, or changes the time
\* zone, and at startup, the job store is the one schedule_reminders derives
\* from the homeworks, lessons and settings as they are then.
C15_RecomputeAfterMutation ==
    [][(\/ Len(homeworks_db') > Len(homeworks_db)
        \/ Len(lessons_db') > Len(lessons_db)
        \/ settings'.notifications # settings.notifications
        \/ settings'.timezone # settings.timezone)
       => jobs' = schedule_reminders({}, homeworks_db', lessons_db', users_db',
                                     settings', now').jobs
      ]_vars

\* C16: a step that ends with schedule_reminders leaves the late-homework
\* sweep job and the lives-reset sweep job with the next fire time they had
\* before it.
C16_SweepsSurviveRecompute ==
    [][recomputed' =>
           \A j \in jobs : j.kind \in SweepKinds => j \in jobs'
      ]_vars

\* C17: whatever recomputes, toggles and firings have happened, send_reminder
\* has run at most once for each (homework or lesson, offset) pair.
C17_NoDoubleFiring ==
    \A id \in DOMAIN delivered : delivered[id].runs <= 1

\* a homework reminder was delivered at its hour and a recompute ran at that
\* same hour afterwards, while the homework was still open
C17_Witness ==
    /\ recomputed
    /\ settings.notifications.homework_reminders
    /\ \E i \in 1..Len(homeworks_db),
          k \in 1..Len(settings.notifications.homework_times) :
           LET h == homeworks_db[i]
               o == settings.notifications.homework_times[k]
           IN /\ IsActive(h, now)
              /\ HasUser(users_db, h.student_id)
              /\ h.deadline - o = now
              /\ <<"hw", o, h.id>> \in DOMAIN delivered

\* the number of times send_reminder has run for a job's reminder
TimesDelivered(d, j) == IF JobId(j) \in DOMAIN d THEN d[JobId(j)].runs ELSE 0

\* C18: a registered homework reminder job whose fire time has not passed
\* leaves the job store only by firing, as long as its homework stays in the
\* table and open, its student stays registered, its offset stays configured
\* and homework reminders stay enabled, whatever recomputes run, one at the
\* hour now = fire_at included.
C18_NoSilentDrop ==
    [][\A j \in jobs :
           (/\ j.kind = "hw"
            /\ now' <= j.run_date
            /\ j \notin jobs'
            /\ settings'.notifications.homework_reminders
            /\ j.hours \in SeqToSet(settings'.notifications.homework_times)
            /\ \E i \in 1..Len(homeworks_db') :
                   /\ homeworks_db'[i].id = j.ent
                   /\ homeworks_db'[i].deadline = j.run_date + j.hours
                   /\ ~homeworks_db'[i].is_completed
                   /\ HasUser(users_db', homeworks_db'[i].student_id))
           => TimesDelivered(delivered', j) = TimesDelivered(delivered, j) + 1
      ]_vars

\* C19: with the lives policy disabled, update_lives(student, delta) on a
\* registered student leaves the student's lives (and every other user) as
\* they are, sends no lives message and returns the student's current
\* balance, for every delta.
C19_DisabledNoOp ==
    [][\A s \in Students, d \in Deltas :
           (~settings.lives.enabled /\ HasUser(users_db, s) /\ UpdateLives(s, d)) =>
               /\ users_db' = users_db
               /\ ~lives_call'.notified
               /\ lives_call'.value = Some(users_db[s].lives)
      ]_vars

\* whole days from a student's last_life_reset to now
ElapsedDays(u) == (now - u.last_life_reset.t) \div HoursPerDay

\* C20: a run of check_and_reset_lives at time now leaves every student whose
\* last_life_reset (the one register_user wrote included) lies at least
\* auto_reset_days back with lives = max_lives and last_life_reset = now, and
\* every other student unchanged.
C20_AutoReset ==
    [][FireResetSweep =>
           \A u \in DOMAIN users_db :
               users_db[u].role = "student" =>
                   IF ElapsedDays(users_db[u]) >= settings.lives.auto_reset_days
                   THEN /\ users_db'[u].lives = settings.lives.max_lives
                        /\ users_db'[u].last_life_reset.t = now
                   ELSE users_db'[u] = users_db[u]
      ]_vars

\* C21: a set_lives_value_save that stores a new max_lives leaves every
\* student, in that same step, with min(lives, new max); when the new value
\* is above the old one no user changes at all.
C21_LoweringClamps ==
    [][\A v \in 0..(InitSettings.lives.max_lives + 1) :
           SetLivesValueSave("max_lives", v) =>
               /\ DOMAIN users_db' = DOMAIN users_db
               /\ \A u \in DOMAIN users_db :
                      users_db[u].role = "student" =>
                          users_db'[u].lives = Min(users_db[u].lives, v)
               /\ v > settings.lives.max_lives => users_db' = users_db
      ]_vars

\* the ceiling went from 5 to 2: a student at 0 stayed there, one at 5 is at 2
C21_Witness ==
    /\ settings.lives.max_lives = 2
    /\ ~lives_call.called
    /\ DOMAIN users_db = Students
    /\ users_db[1].lives = 0
    /\ users_db[2].lives = 2

\* C22: a complete_homework call for an id that no homework has, or that only
\* another student's homework has, is answered not-found and changes no
\* homework and no user, calls update_lives not at all and sends the tutor
\* nothing.
C22_NotFoundNoChange ==
    [][\A u \in Students, i \in 1..MaxId, sent \in BOOLEAN :
           (/\ ~\E k \in 1..Len(homeworks_db) :
                    homeworks_db[k].id = i /\ homeworks_db[k].student_id = u
            /\ CompleteHomework(u, i, sent))
           => /\ reply' = "hw_not_found"
              /\ homeworks_db' = homeworks_db
              /\ users_db' = users_db
              /\ ~lives_call'.called
      ]_vars

\* both ids belong to open homeworks of student 1, and a completion attempt
\* (by another user) was answered not-found
C22_Witness ==
    /\ reply = "hw_not_found"
    /\ Len(homeworks_db) = MaxId
    /\ \A k \in 1..Len(homeworks_db) :
           homeworks_db[k].student_id = 1 /\ ~homeworks_db[k].is_completed

\* C23: tutor_delete_student_execute for a registered student s removes the
\* user s and every homework and lesson of s in that step, and leaves every
\* other user, homework and lesson as it was.
C23_DeleteCascades ==
    [][\A s \in Students :
           (HasUser(users_db, s) /\ DeleteStudentExecute(s)) =>
               /\ DOMAIN users_db' = DOMAIN users_db \ {s}
               /\ \A u \in DOMAIN users_db' : users_db'[u] = users_db[u]
               /\ \A k \in 1..Len(homeworks_db') : homeworks_db'[k].student_id # s
               /\ \A k \in 1..Len(lessons_db') : lessons_db'[k].student_id # s
               /\ SeqToSet(homeworks_db')
                      = {h \in SeqToSet(homeworks_db) : h.student_id # s}
               /\ SeqToSet(lessons_db')
                      = {l \in SeqToSet(lessons_db) : l.student_id # s}
      ]_vars

\* student 1 was deleted with the one entry made for them; student 2 and the
\* homework of student 2 are still there
C23_Witness ==
    /\ reply = "student_deleted"
    /\ DOMAIN users_db = {2}
    /\ next_id = MaxId + 1
    /\ lessons_db = <<>>
    /\ Len(homeworks_db) = 1
    /\ homeworks_db[1].student_id = 2

\* the student the open draft names is not registered
DraftStudentGone ==
    /\ user_data.selected_student # None
    /\ ~HasUser(users_db, user_data.selected_student[1])

\* C24: the final step of an add-homework or add-lesson flow whose selected
\* student has been deleted in the meantime answers not-found and creates
\* nothing, so that in every state each homework and each lesson belongs to
\* a registered student.
C24_ReferentialIntegrity ==
    [][/\ (/\ DraftStudentGone
           /\ \/ \E x \in DeadlineTexts, sent \in BOOLEAN : TutorHwDeadline(x, sent)
              \/ \E sent \in BOOLEAN : TutorLessonMinute(sent))
          => /\ reply' = "student_not_found"
             /\ homeworks_db' = homeworks_db
             /\ lessons_db' = lessons_db
       /\ \A k \in 1..Len(homeworks_db') :
              HasUser(users_db', homeworks_db'[k].student_id)
       /\ \A k \in 1..Len(lessons_db') :
              HasUser(users_db', lessons_db'[k].student_id)
      ]_vars

\* C28: a homework the add-homework flow commits belongs to the student
\* picked in that flow's select-student step and carries the text typed in
\* that flow, whatever else the tutor did in the chat between the steps.
C28_DraftIsolation ==
    [][Len(homeworks_db') > Len(homeworks_db) =>
           LET hw == homeworks_db'[Len(homeworks_db')]
           IN /\ conv.hw_chosen = Some(hw.student_id)
              /\ conv.hw_entered = Some(hw.task_text)
      ]_vars

\* C25: in every state at most one user has the role tutor, a user with the
\* role tutor has the id TUTOR_ID, and no step changes the role of a user
\* who stays registered.
C25_OneTutor ==
    [][/\ Cardinality({u \in DOMAIN users_db' : users_db'[u].role = "tutor"}) <= 1
       /\ \A u \in DOMAIN users_db' : users_db'[u].role = "tutor" => u = TUTOR_ID
       /\ \A u \in DOMAIN users_db \cap DOMAIN users_db' :
              users_db'[u].role = users_db[u].role
      ]_vars

\* the tutor registered at hour 0 and is the tutor; both students registered
\* (one of them at the last hour) and are students
C25_Witness ==
    /\ DOMAIN users_db = UserIds
    /\ users_db[TUTOR_ID].role = "tutor"
    /\ users_db[TUTOR_ID].last_life_reset.t = 0
    /\ \A s \in Students : users_db[s].role = "student"
    /\ users_db[1].last_life_reset.t = MaxTime

\* the homeworks that were late when the sweep that runs in this step began
LateAtStart ==
    IF sweep.pc = "idle"
    THEN {h.id : h \in SeqToSet(get_late_homeworks(homeworks_db, now))}
    ELSE sweep.started

\* C26: when a run of check_late_homeworks ends, every homework that was past
\* its deadline, not completed and not late_notified when the run began is
\* late_notified, with late alerts and the lives policy on or off.
C26_SweepCompleteness ==
    [][(/\ \/ sweep.pc = "idle" /\ FireLateSweep
           \/ \E sent \in BOOLEAN : SweepResume(sent)
        /\ sweep'.pc = "idle")
       => \A k \in 1..Len(homeworks_db') :
              homeworks_db'[k].id \in LateAtStart => homeworks_db'[k].late_notified
      ]_vars

\* C27: when the send of the tutor's late alert for a homework fails and the
\* lives policy is enabled, the sweep goes on to that homework's penalty as
\* after a delivered alert: the student's lives are lowered by penalty_late
\* (clamped) and the sweep is then in the send that reports the penalty.
C27_AlertFailureKeepsPenalty ==
    [][(/\ sweep.pc = "alert"
        /\ settings.lives.enabled
        /\ SweepResume(FALSE))
       => LET e == Head(sweep.queue)
          IN /\ users_db' = update_lives(users_db, settings, e.student_id,
                                         -settings.lives.penalty_late)
             /\ lives_call'.called
             /\ sweep'.pc = "penalty"
             /\ sweep'.queue = sweep.queue
      ]_vars

SweepJobs(kind) == {j \in jobs : j.kind = kind}

\* C30: in every state the job store holds exactly one job with the id
\* check_late_homeworks, with an interval of 6 hours, and exactly one with
\* the id reset_lives_check, with an interval of 24 hours.
C30_TwoSweepJobs ==
    /\ Cardinality(SweepJobs("check_late_homeworks")) = 1
    /\ \A j \in SweepJobs("check_late_homeworks") : j.hours = 6
    /\ Cardinality(SweepJobs("reset_lives_check")) = 1
    /\ \A j \in SweepJobs("reset_lives_check") : j.hours = 24

\* the last recompute ran at hour MaxTime; since then the late sweep has run
\* four times and the reset sweep once, and each was re-armed
C30_Witness ==
    /\ \E j \in jobs : /\ j.kind = "reset_lives_check"
                        /\ j.run_date = MaxTime + 2 * ResetSweepHours
    /\ \E j \in jobs : /\ j.kind = "check_late_homeworks"
                        /\ j.run_date = MaxTime + 5 * LateSweepHours

\* C10: completing an open homework at time now marks it completed at now,
\* answers "early" exactly when the deadline is still ahead, and changes the
\* student's lives to min(lives + reward_early, max_lives) exactly when it is
\* early with the policy enabled and a positive reward; otherwise the lives
\* stay as they are.
C10_Completion ==
    [][\A u \in Students, i \in 1..MaxId, sent \in BOOLEAN :
           (IsOpen(u, i) /\ CompleteHomework(u, i, sent)) =>
               LET k     == Found(u, i)
                   hw    == homeworks_db[k]
                   early == hw.deadline > now
                   lives == settings.lives
               IN /\ homeworks_db'[k].is_completed
                  /\ homeworks_db'[k].completed_at = Some(now)
                  /\ reply' # "error" =>
                        (reply' = IF early THEN "hw_done_early" ELSE "hw_done_late")
                  /\ HasUser(users_db, u) =>
                        users_db'[u].lives =
                            IF early /\ lives.enabled /\ lives.reward_early > 0
                            THEN Min(users_db[u].lives + lives.reward_early,
                                     lives.max_lives)
                            ELSE users_db[u].lives
      ]_vars

\* the student stood at 3 of 5 lives and an early completion credited one
C10_Witness ==
    /\ reply = "hw_done_early"
    /\ settings.lives.max_lives = 5
    /\ settings.lives.reward_early = 1
    /\ 1 \in DOMAIN users_db
    /\ users_db[1].lives = 4
    /\ \E i \in 1..Len(homeworks_db) :
           /\ homeworks_db[i].rewards = 1
           /\ homeworks_db[i].completed_at = Some(now)

\* the reminder job that ran in this step with a send that raised
FailedRun(j) ==
    /\ j.kind \in {"hw", "lesson"}
    /\ JobId(j) \in DOMAIN delivered'
    /\ delivered'[JobId(j)].failed
           = (IF JobId(j) \in DOMAIN delivered THEN delivered[JobId(j)].failed ELSE 0) + 1

\* C31: a send_reminder run whose send raises ends without an error leaving
\* the job, takes its job out of the store and leaves every other job as it
\* was; and a reminder whose send has failed is never run a second time and
\* is never in the store again, whatever recomputes follow.
C31_FailedReminderConsumed ==
    [][/\ \A j \in jobs :
              FailedRun(j) => /\ reply' # "error"
                              /\ jobs' = jobs \ {j}
       /\ \A id \in DOMAIN delivered' :
              delivered'[id].failed > 0 =>
                  /\ delivered'[id].runs = 1
                  /\ ~\E k \in jobs' : JobId(k) = id
      ]_vars

\* the 2-hour reminder of one homework failed at hour 2, a recompute ran, and
\* the 24-hour reminder of the other homework was delivered at hour 3
C31_Witness ==
    /\ now = 3
    /\ \E e \in 1..MaxId :
           /\ <<"hw", 2, e>> \in DOMAIN delivered
           /\ delivered[<<"hw", 2, e>>] = [runs |-> 1, failed |-> 1]
    /\ \E e \in 1..MaxId :
           /\ <<"hw", 24, e>> \in DOMAIN delivered
           /\ delivered[<<"hw", 24, e>>] = [runs |-> 1, failed |-> 0]
    /\ \E j \in jobs : j.kind = "hw" /\ j.run_date > now

\* the (kind, offset, entity id) triples an id text can be made from
IdTriples == {"hw", "lesson"} \X OfferedTimes \X (1..(MaxId + 1))

NoDuplicates(s) == \A i, k \in 1..Len(s) : s[i] = s[k] => i = k

\* C32: in every state no two jobs in the store carry the same id text, the
\* id text of a registered reminder is the id text of no other (kind,
\* offset, entity id) triple, and no offset occurs twice in homework_times
\* or lesson_times, through creations, offset toggles, deletions and
\* clear-all.
C32_UniqueJobIds ==
    /\ \A j, k \in jobs : StoreId(j) = StoreId(k) => j = k
    /\ \A j \in jobs : j.kind \notin SweepKinds =>
           \A t \in IdTriples :
               FormatJobId(t[1], t[2], t[3]) = StoreId(j) => t = <<j.kind, j.hours, j.ent>>
    /\ NoDuplicates(settings.notifications.homework_times)
    /\ NoDuplicates(settings.notifications.lesson_times)

\* after a clear-all the counter started again: the homework and the lesson
\* in the tables carry the ids 1 and 2 a second time, each with a reminder
\* for every offset (12 hours was switched on for lessons) in the store
C32_Witness ==
    /\ recomputed
    /\ next_id = MaxId + 1
    /\ Len(homeworks_db) = 1
    /\ Len(lessons_db) = 1
    /\ now >= 1
    /\ Len(settings.notifications.lesson_times) = 3
    /\ Cardinality({j \in jobs : j.kind = "hw"}) = 3
    /\ Cardinality({j \in jobs : j.kind = "lesson"}) = 3

\* C33: with auto_reset_days >= 1, a run of check_and_reset_lives at a time
\* less than auto_reset_days after a student's last reset leaves that
\* student as it is, a second run at the hour of the reset included.
C33_ResetOncePerInterval ==
    [][(FireResetSweep \/ CheckAndResetLives) =>
           \A u \in DOMAIN users_db :
               (/\ users_db[u].role = "student"
                /\ settings.lives.auto_reset_days >= 1
                /\ now - users_db[u].last_life_reset.t
                       < settings.lives.auto_reset_days * HoursPerDay)
               => users_db'[u] = users_db[u]
      ]_vars

\* check_and_reset_lives reset the student at hour 24 (the command is out of
\* reach by then); the student has lost lives since, and a run of
\* check_and_reset_lives at hour 26 has reset nobody
C33_Witness ==
    /\ reply = "no_reset"
    /\ now = ResetTime
    /\ settings.lives.auto_reset_days = 1
    /\ 1 \in DOMAIN users_db
    /\ users_db[1].last_life_reset = [t |-> ResetSweepHours, aware |-> TRUE]
    /\ users_db[1].lives < settings.lives.max_lives


\* C34: in the deadline step of the add-homework flow a text that does not
\* parse is answered with the format message and changes no user, homework,
\* lesson, setting or job, nor the counter, the draft or the step; a deadline
\* that parses, sent next, appends the homework.
C34_BadDeadlineReprompts ==
    [][/\ (conv.hw = "deadline" /\ TutorHwDeadline(<<>>, TRUE))
          => /\ reply' = "bad_format"
             /\ UNCHANGED <<users_db, homeworks_db, lessons_db, next_id, settings,
                            jobs, user_data, conv>>
       /\ (reply = "bad_format" /\ TutorHwDeadline(<<7>>, TRUE))
          => /\ Len(homeworks_db') = Len(homeworks_db) + 1
             /\ ~homeworks_db'[Len(homeworks_db')].is_completed
      ]_vars

\* C35: a /reset_lives, a clear-all confirmation or a delete confirmation
\* that comes from a user for whom is_tutor is false leaves users, homeworks,
\* lessons, settings and jobs as they were.
C35_TutorOnly ==
    [][\A u \in UserIds :
           (/\ ~is_tutor(users_db, u)
            /\ \/ ResetLivesCommand(u)
               \/ ClearAllConfirmBy(u)
               \/ \E s \in Students : DeleteStudentExecuteBy(u, s))
           => UNCHANGED <<users_db, homeworks_db, lessons_db, settings, jobs>>
      ]_vars

\* a step in which a run of check_late_homeworks ends
SweepRunEnds ==
    /\ \/ sweep.pc = "idle" /\ FireLateSweep
       \/ \E sent \in BOOLEAN : SweepResume(sent)
    /\ sweep'.pc = "idle"

\* C36: a homework committed with a deadline already behind now is stored
\* not completed, has no reminder job after the recompute of that step and
\* is among the late homeworks at once; and when the next run of
\* check_late_homeworks ends, each homework that was late when it began is
\* late_notified and has had the late penalty applied.
C36_PastDeadlineLateAtOnce ==
    [][/\ Len(homeworks_db') > Len(homeworks_db) =>
              LET hw == homeworks_db'[Len(homeworks_db')]
              IN hw.deadline < now =>
                     /\ ~hw.is_completed
                     /\ ~\E j \in jobs' : j.kind = "hw" /\ j.ent = hw.id
                     /\ IsLate(hw, now')
       /\ SweepRunEnds =>
              \A k \in 1..Len(homeworks_db') :
                  homeworks_db'[k].id \in LateAtStart =>
                      /\ homeworks_db'[k].late_notified
                      /\ homeworks_db'[k].penalties = 1
      ]_vars

\* the jobs as (id, fire time) pairs
IdsAndTimes(js) == {<<JobId(j), j.run_date>> : j \in js}

\* C37: a set_timezone step leaves every homework and every lesson as it
\* was, and when it reaches its recompute the job store has the ids and fire
\* times a recompute with the old time zone would have produced at that hour.
C37_ZoneChangeKeepsInstants ==
    [][\A z \in Zones, sent \in BOOLEAN :
           SetTimezone(z, sent) =>
               /\ homeworks_db' = homeworks_db
               /\ lessons_db' = lessons_db
               /\ recomputed' =>
                      IdsAndTimes(jobs')
                          = IdsAndTimes(schedule_reminders(jobs, homeworks_db, lessons_db,
                                                           users_db, settings, now).jobs)
      ]_vars

\* the zone went from Moscow to Omsk at hour 1 with a homework and a
\* lesson stored: the homework's 2-hour reminder is still set for hour 2 and
\* the lesson's 24-hour reminder for hour 5
C37_Witness ==
    /\ recomputed
    /\ reply = "none"
    /\ now = 1
    /\ settings.timezone = "Asia/Omsk"
    /\ settings.notifications = InitSettings.notifications
    /\ Len(homeworks_db) = 1
    /\ Len(lessons_db) = 1
    /\ \E j \in jobs : j.kind = "hw" /\ j.hours = 2 /\ j.run_date = 2
    /\ \E j \in jobs : j.kind = "lesson" /\ j.hours = 24 /\ j.run_date = 5

\* C38: a /start from a user who is in users_db finds register_user
\* returning False and leaves every user record as it was; a /start from a
\* user who is not creates that user's record, with lives = max_lives and
\* the process-wide time zone, and leaves the other records as they were.
C38_CreatedOnFirstContact ==
    [][\A u \in UserIds :
           Start(u) =>
               IF HasUser(users_db, u)
               THEN /\ ~register_user_result(users_db, u)
                    /\ users_db' = users_db
               ELSE /\ register_user_result(users_db, u)
                    /\ DOMAIN users_db' = DOMAIN users_db \cup {u}
                    /\ users_db'[u].lives = settings.lives.max_lives
                    /\ users_db'[u].timezone = settings.timezone
                    /\ users_db'[u].role = IF u = TUTOR_ID THEN "tutor" ELSE "student"
                    /\ \A x \in DOMAIN users_db : users_db'[x] = users_db[x]
      ]_vars

\* student 1 registered at hour 0 and has lost lives; the ceiling is 2 and
\* the zone is Omsk by now; student 1 has just sent /start again at hour
\* MaxTime and the record still is the one of hour 0
C38_Witness ==
    /\ reply = "welcome"
    /\ now = MaxTime
    /\ settings.timezone = "Asia/Omsk"
    /\ settings.lives.max_lives = 2
    /\ DOMAIN users_db = {1}
    /\ users_db[1] = [role |-> "student", lives |-> 1,
                      last_life_reset |-> [t |-> 0, aware |-> FALSE],
                      timezone |-> "Europe/Moscow"]

====
